---- MODULE Spec2Model ----
(***************************************************************************)
(* A model of the fast_bitfield crate: SmallBitField (one machine word)    *)
(* and LargeBitField (a layer_cache word summarising an array of words).   *)
(* A behaviour follows one bitfield value from new() through any sequence  *)
(* of calls of its checked public interface.                               *)
(*                                                                         *)
(* Every function of the crate is an operator over the value of `self`;    *)
(* the actions apply these operators to the state.  Machine words are      *)
(* naturals below 2^SMALL_BIT_FIELD_BIT_SIZE and the bitwise operators     *)
(* are computed bit by bit.                                                *)
(***************************************************************************)
EXTENDS Naturals, Integers, FiniteSets, Sequences

\* The width of a machine word in bits, mem::size_of::<usize>() * 8 in the
\* crate (32 or 64), scaled down so that every word value is enumerated.
SMALL_BIT_FIELD_BIT_SIZE ==
    2

LARGE_BIT_FIELD_BIT_SIZE ==
    SMALL_BIT_FIELD_BIT_SIZE * SMALL_BIT_FIELD_BIT_SIZE

\* The index arguments tried reach MaxExcess values past the capacity.
MaxExcess ==
    4

\* The width of the index arithmetic.  An index is a usize as well, but with
\* the word scaled down it needs more bits than a word has to hold the
\* capacity and the indices past it.
IndexBits ==
    4

usize_MAX ==
    (2 ^ IndexBits) - 1

Words ==
    0 .. ((2 ^ SMALL_BIT_FIELD_BIT_SIZE) - 1)

Groups ==
    0 .. (SMALL_BIT_FIELD_BIT_SIZE - 1)

\* core::usize::MAX of a word: every bit set.
AllOnes ==
    (2 ^ SMALL_BIT_FIELD_BIT_SIZE) - 1

\* Argument values of the calls.
LargeIndices ==
    0 .. (LARGE_BIT_FIELD_BIT_SIZE + MaxExcess - 1)

SmallIndices ==
    0 .. (SMALL_BIT_FIELD_BIT_SIZE + MaxExcess - 1)

GroupIndices ==
    0 .. (SMALL_BIT_FIELD_BIT_SIZE + 1)

\* The arrays passed to set_field and clear_field hold these masks.
FieldMasks ==
    {0, 1, AllOnes}

FieldValues ==
    [Groups -> FieldMasks]

VARIABLES
    kind,             \* which type the value is: "small" or "large", or an
                      \* earlier revision of SmallBitField, "small_lib_rs" or
                      \* "small_bit_field_rs"
    overflow_checks,  \* the build: TRUE panics on arithmetic overflow, FALSE wraps
    small_bitfield,   \* SmallBitField.bitfield
    layer_cache,      \* LargeBitField.layer_cache
    bitfield,         \* LargeBitField.bitfield
    op,               \* the last call
    valid,            \* whether the index argument of the last call was in range
    ret               \* what the last call returned

vars ==
    <<kind, overflow_checks, small_bitfield, layer_cache, bitfield, op, valid, ret>>

----------------------------------------------------------------------------
\* Results of calls.

None ==
    <<"None">>

Some(v) ==
    <<"Some", v>>

\* A plain bool returned.
Bool(b) ==
    <<"bool", b>>

\* A mutator that returned.
Unit ==
    <<"()">>

\* A call that panicked.
Panic ==
    <<"panic">>

----------------------------------------------------------------------------
\* Bitwise operators on words.

Bit(x, k) ==
    (x \div (2 ^ k)) % 2

RECURSIVE OrBits(_, _, _)
OrBits(x, y, n) ==
    IF n = 0
    THEN 0
    ELSE (IF (x % 2 = 1) \/ (y % 2 = 1) THEN 1 ELSE 0)
         + 2 * OrBits(x \div 2, y \div 2, n - 1)

RECURSIVE AndBits(_, _, _)
AndBits(x, y, n) ==
    IF n = 0
    THEN 0
    ELSE (IF (x % 2 = 1) /\ (y % 2 = 1) THEN 1 ELSE 0)
         + 2 * AndBits(x \div 2, y \div 2, n - 1)

\* x | y
BitOr(x, y) ==
    OrBits(x, y, SMALL_BIT_FIELD_BIT_SIZE)

\* x & y
BitAnd(x, y) ==
    AndBits(x, y, SMALL_BIT_FIELD_BIT_SIZE)

\* !x
BitNot(x) ==
    AllOnes - x

\* The value of an arithmetic expression that panicked.
Overflow ==
    0 - 1

\* 1 << n.  A shift by the width of the word or more overflows: the build
\* with overflow checks panics, the build without masks the shift amount to
\* the width of the word.
Shl1(n) ==
    IF n < SMALL_BIT_FIELD_BIT_SIZE
    THEN 2 ^ n
    ELSE IF overflow_checks
         THEN Overflow
         ELSE 2 ^ (n % SMALL_BIT_FIELD_BIT_SIZE)

\* (b) as usize
AsUsize(b) ==
    IF b THEN 1 ELSE 0

\* value.trailing_zeros(): the width of the word for zero.
RECURSIVE trailing_zeros_from(_, _)
trailing_zeros_from(value, n) ==
    IF n = SMALL_BIT_FIELD_BIT_SIZE \/ Bit(value, n) = 1
    THEN n
    ELSE trailing_zeros_from(value, n + 1)

trailing_zeros(value) ==
    trailing_zeros_from(value, 0)

\* value.leading_zeros(): the width of the word for zero.
RECURSIVE leading_zeros_from(_, _)
leading_zeros_from(value, n) ==
    IF n = SMALL_BIT_FIELD_BIT_SIZE
       \/ Bit(value, SMALL_BIT_FIELD_BIT_SIZE - 1 - n) = 1
    THEN n
    ELSE leading_zeros_from(value, n + 1)

leading_zeros(value) ==
    leading_zeros_from(value, 0)

\* a - b and a + b on usize: an overflow panics in the build with overflow
\* checks and wraps in the build without.
UsizeSub(a, b) ==
    IF a = Overflow \/ b = Overflow
    THEN Overflow
    ELSE IF a >= b
         THEN a - b
         ELSE IF overflow_checks THEN Overflow ELSE (a + usize_MAX + 1) - b

UsizeAdd(a, b) ==
    IF a = Overflow \/ b = Overflow
    THEN Overflow
    ELSE IF a + b <= usize_MAX
         THEN a + b
         ELSE IF overflow_checks THEN Overflow ELSE (a + b) % (usize_MAX + 1)

----------------------------------------------------------------------------
\* The bit scan of lib.rs.  Each operator is the set of the results the call
\* can have: cpu_features::opcodes::count_leading_zeros_exists() is a fact of
\* the host, so both branches are results.

\* debruijin::get_lowest_set_bit and get_highest_set_bit, the portable bit
\* scan: the index of the lowest (highest) set bit of a non-zero word, and an
\* unspecified index below the width of the word for zero.
debruijin_get_lowest_set_bit(value) ==
    IF value # 0 THEN {trailing_zeros(value)} ELSE Groups

debruijin_get_highest_set_bit(value) ==
    IF value # 0
    THEN {SMALL_BIT_FIELD_BIT_SIZE - 1 - leading_zeros(value)}
    ELSE Groups

find_lowest_set_bit(value) ==
    {trailing_zeros(value)} \cup debruijin_get_lowest_set_bit(value)

find_highest_set_bit(value) ==
    {UsizeSub(SMALL_BIT_FIELD_BIT_SIZE - 1, leading_zeros(value))}
        \cup debruijin_get_highest_set_bit(value)

\* Some(r) of a result of the bit scan, or the panic of its arithmetic.
SomeOrPanic(r) ==
    IF r = Overflow THEN Panic ELSE Some(r)

----------------------------------------------------------------------------
\* SmallBitField (small_bitfield.rs).  `b` is self.bitfield; a mutator is the
\* value of self.bitfield when it returns.

Small_new ==
    0

Small_set_field(b, field) ==
    BitOr(b, field)

Small_clear_field(b, field) ==
    BitAnd(b, BitNot(field))

Small_set_bit(b, index) ==
    IF index < SMALL_BIT_FIELD_BIT_SIZE
    THEN BitOr(b, Shl1(index))
    ELSE b

Small_clear_bit(b, index) ==
    IF index < SMALL_BIT_FIELD_BIT_SIZE
    THEN BitAnd(b, BitNot(Shl1(index)))
    ELSE b

Small_test_bit_unchecked(b, index) ==
    BitAnd(b, Shl1(index)) # 0

Small_test_bit(b, index) ==
    IF index < SMALL_BIT_FIELD_BIT_SIZE
    THEN Some(Small_test_bit_unchecked(b, index))
    ELSE None

Small_is_empty(b) ==
    b = 0

Small_get_lowest_set_bit_unchecked(b) ==
    find_lowest_set_bit(b)

Small_get_highest_set_bit_unchecked(b) ==
    find_highest_set_bit(b)

Small_get_lowest_set_bit(b) ==
    IF Small_is_empty(b)
    THEN {None}
    ELSE {SomeOrPanic(r) : r \in Small_get_lowest_set_bit_unchecked(b)}

Small_get_highest_set_bit(b) ==
    IF Small_is_empty(b)
    THEN {None}
    ELSE {SomeOrPanic(r) : r \in Small_get_highest_set_bit_unchecked(b)}

----------------------------------------------------------------------------
\* The earlier revisions of SmallBitField's checked mutators: the one in
\* lib.rs and the one in small_bit_field.rs.

Small_set_bit_lib_rs(b, index) ==
    IF index < SMALL_BIT_FIELD_BIT_SIZE
    THEN BitOr(b, Shl1(index))
    ELSE b

Small_clear_bit_lib_rs(b, index) ==
    IF index < SMALL_BIT_FIELD_BIT_SIZE
    THEN BitAnd(b, BitNot(Shl1(index)))
    ELSE b

\* Small_set_bit_small_bit_field_rs with the guard inverted.
Small_set_bit_guard_inverted(b, index) ==
    IF index >= SMALL_BIT_FIELD_BIT_SIZE
    THEN BitOr(b, Shl1(index))
    ELSE b

Small_set_bit_small_bit_field_rs(b, index) ==
    IF index < SMALL_BIT_FIELD_BIT_SIZE
    THEN BitOr(b, Shl1(index))
    ELSE b

Small_clear_bit_small_bit_field_rs(b, index) ==
    IF index < SMALL_BIT_FIELD_BIT_SIZE
    THEN BitAnd(b, BitNot(Shl1(index)))
    ELSE b

----------------------------------------------------------------------------
\* LargeBitField (large_bitfield.rs).  `s` is the value of self, a record of
\* layer_cache and bitfield; a mutator is the record of the two fields when
\* the call ends and of how it ended (ret: Unit or Panic).

Large_new ==
    [layer_cache |-> 0, bitfield |-> [g \in Groups |-> 0]]

Returned(cache, field) ==
    [layer_cache |-> cache, bitfield |-> field, ret |-> Unit]

Panicked(s) ==
    [layer_cache |-> s.layer_cache, bitfield |-> s.bitfield, ret |-> Panic]

Large_test_group_unchecked(s, group_index) ==
    BitAnd(s.layer_cache, Shl1(group_index)) # 0

\* Large_test_group with the bound test off by one (<= for <).
Large_test_group_off_by_one(s, group_index) ==
    IF group_index <= SMALL_BIT_FIELD_BIT_SIZE
    THEN Some(Large_test_group_unchecked(s, group_index))
    ELSE None

Large_test_group(s, group_index) ==
    IF group_index < SMALL_BIT_FIELD_BIT_SIZE
    THEN Some(Large_test_group_unchecked(s, group_index))
    ELSE None

Large_set_group_unchecked(s, group_index, group_field) ==
    LET field_has_values == AsUsize(group_field # 0)
        layer_cache_update == Shl1(group_index) * field_has_values
        subfield == BitOr(s.bitfield[group_index], group_field)
    IN  Returned(BitOr(s.layer_cache, layer_cache_update),
                 [s.bitfield EXCEPT ![group_index] = subfield])

Large_clear_group_unchecked(s, group_index, group_field) ==
    LET subfield == BitAnd(s.bitfield[group_index], BitNot(group_field))
        is_clear == AsUsize(subfield = 0)
        layer_cache_update == Shl1(group_index) * is_clear
    IN  Returned(BitAnd(s.layer_cache, BitNot(layer_cache_update)),
                 [s.bitfield EXCEPT ![group_index] = subfield])

Large_set_group(s, group_index, group_field) ==
    IF group_index < SMALL_BIT_FIELD_BIT_SIZE
    THEN Large_set_group_unchecked(s, group_index, group_field)
    ELSE Returned(s.layer_cache, s.bitfield)

Large_clear_group(s, group_index, group_field) ==
    IF group_index < SMALL_BIT_FIELD_BIT_SIZE
    THEN Large_clear_group_unchecked(s, group_index, group_field)
    ELSE Returned(s.layer_cache, s.bitfield)

\* for index in 0..SMALL_BIT_FIELD_BIT_SIZE: the loop from `index` on.
RECURSIVE set_field_from(_, _, _)
set_field_from(s, values, index) ==
    IF index = SMALL_BIT_FIELD_BIT_SIZE
    THEN Returned(s.layer_cache, s.bitfield)
    ELSE set_field_from(Large_set_group_unchecked(s, index, values[index]),
                        values, index + 1)

\* Large_set_field with the loop starting at group 1.
Large_set_field_skips_first_group(s, values) ==
    set_field_from(s, values, 1)

Large_set_field(s, values) ==
    set_field_from(s, values, 0)

RECURSIVE clear_field_from(_, _, _)
clear_field_from(s, values, index) ==
    IF index = SMALL_BIT_FIELD_BIT_SIZE
    THEN Returned(s.layer_cache, s.bitfield)
    ELSE clear_field_from(Large_clear_group_unchecked(s, index, values[index]),
                          values, index + 1)

Large_clear_field(s, values) ==
    clear_field_from(s, values, 0)

\* Large_set_bit without the update of layer_cache.
Large_set_bit_without_layer_cache(s, index) ==
    LET top_layer == index \div SMALL_BIT_FIELD_BIT_SIZE
        bottom_layer == index % SMALL_BIT_FIELD_BIT_SIZE
    IN  IF top_layer \notin DOMAIN s.bitfield
        THEN Returned(s.layer_cache, s.bitfield)
        ELSE Returned(s.layer_cache,
                      [s.bitfield EXCEPT ![top_layer] =
                          BitOr(@, Shl1(bottom_layer))])

\* Large_set_bit with the layer_cache bit taken from bottom_layer.
Large_set_bit_layer_from_bottom(s, index) ==
    LET top_layer == index \div SMALL_BIT_FIELD_BIT_SIZE
        bottom_layer == index % SMALL_BIT_FIELD_BIT_SIZE
        cache == BitOr(s.layer_cache, Shl1(bottom_layer))
    IN  IF top_layer \notin DOMAIN s.bitfield
        THEN Returned(cache, s.bitfield)
        ELSE Returned(cache,
                      [s.bitfield EXCEPT ![top_layer] =
                          BitOr(@, Shl1(bottom_layer))])

Large_set_bit(s, index) ==
    LET top_layer == index \div SMALL_BIT_FIELD_BIT_SIZE
        bottom_layer == index % SMALL_BIT_FIELD_BIT_SIZE
        top_mask == Shl1(top_layer)
    IN  IF top_mask = Overflow
        THEN Panicked(s)
        ELSE LET cache == BitOr(s.layer_cache, top_mask)
             IN  IF top_layer \notin DOMAIN s.bitfield
                 THEN Returned(cache, s.bitfield)
                 ELSE Returned(cache,
                               [s.bitfield EXCEPT ![top_layer] =
                                   BitOr(@, Shl1(bottom_layer))])

\* Large_clear_bit with the mask not inverted (& for & !).
Large_clear_bit_mask_not_inverted(s, index) ==
    LET top_layer == index \div SMALL_BIT_FIELD_BIT_SIZE
        bottom_layer == index % SMALL_BIT_FIELD_BIT_SIZE
    IN  IF top_layer \notin DOMAIN s.bitfield
        THEN Returned(s.layer_cache, s.bitfield)
        ELSE LET sub_field == BitAnd(s.bitfield[top_layer], Shl1(bottom_layer))
                 field == [s.bitfield EXCEPT ![top_layer] = sub_field]
             IN  IF sub_field = 0
                 THEN Returned(BitAnd(s.layer_cache, BitNot(Shl1(top_layer))),
                               field)
                 ELSE Returned(s.layer_cache, field)

Large_clear_bit(s, index) ==
    LET top_layer == index \div SMALL_BIT_FIELD_BIT_SIZE
        bottom_layer == index % SMALL_BIT_FIELD_BIT_SIZE
    IN  IF top_layer \notin DOMAIN s.bitfield
        THEN Returned(s.layer_cache, s.bitfield)
        ELSE LET sub_field == BitAnd(s.bitfield[top_layer],
                                     BitNot(Shl1(bottom_layer)))
                 field == [s.bitfield EXCEPT ![top_layer] = sub_field]
             IN  IF sub_field = 0
                 THEN Returned(BitAnd(s.layer_cache, BitNot(Shl1(top_layer))),
                               field)
                 ELSE Returned(s.layer_cache, field)

\* set_bit_unchecked and clear_bit_unchecked are unsafe: the caller
\* guarantees index < LARGE_BIT_FIELD_BIT_SIZE, and get_unchecked_mut past
\* the array is undefined behaviour.  The operators are the calls that keep
\* the guarantee.
Large_set_bit_unchecked(s, index) ==
    LET top_layer == index \div SMALL_BIT_FIELD_BIT_SIZE
        bottom_layer == index % SMALL_BIT_FIELD_BIT_SIZE
    IN  Returned(BitOr(s.layer_cache, Shl1(top_layer)),
                 [s.bitfield EXCEPT ![top_layer] =
                     BitOr(@, Shl1(bottom_layer))])

\* Large_clear_bit_unchecked with is_clear taken before the bit is cleared.
Large_clear_bit_unchecked_stale_is_clear(s, index) ==
    LET top_layer == index \div SMALL_BIT_FIELD_BIT_SIZE
        bottom_layer == index % SMALL_BIT_FIELD_BIT_SIZE
        is_clear == AsUsize(s.bitfield[top_layer] = 0)
        sub_field == BitAnd(s.bitfield[top_layer], BitNot(Shl1(bottom_layer)))
        layer_cache_update == Shl1(top_layer) * is_clear
    IN  Returned(BitAnd(s.layer_cache, BitNot(layer_cache_update)),
                 [s.bitfield EXCEPT ![top_layer] = sub_field])

Large_clear_bit_unchecked(s, index) ==
    LET top_layer == index \div SMALL_BIT_FIELD_BIT_SIZE
        bottom_layer == index % SMALL_BIT_FIELD_BIT_SIZE
        sub_field == BitAnd(s.bitfield[top_layer], BitNot(Shl1(bottom_layer)))
        is_clear == AsUsize(sub_field = 0)
        layer_cache_update == Shl1(top_layer) * is_clear
    IN  Returned(BitAnd(s.layer_cache, BitNot(layer_cache_update)),
                 [s.bitfield EXCEPT ![top_layer] = sub_field])

Large_test_bit_unchecked(s, index) ==
    LET top_layer == index \div SMALL_BIT_FIELD_BIT_SIZE
        bottom_mask == Shl1(index % SMALL_BIT_FIELD_BIT_SIZE)
    IN  BitAnd(s.bitfield[top_layer], bottom_mask) # 0

Large_test_bit(s, index) ==
    IF index < LARGE_BIT_FIELD_BIT_SIZE
    THEN Some(Large_test_bit_unchecked(s, index))
    ELSE None

Large_is_empty(s) ==
    s.layer_cache = 0

\* self.bitfield.get_unchecked(level) with level past the array is undefined
\* behaviour: any result, or none.
Undefined ==
    (0 .. usize_MAX) \cup {Overflow}

Large_get_lowest_set_bit_unchecked(s) ==
    UNION { IF level = Overflow
            THEN {Overflow}
            ELSE IF level \in DOMAIN s.bitfield
            THEN { UsizeAdd(level * SMALL_BIT_FIELD_BIT_SIZE, r) :
                       r \in find_lowest_set_bit(s.bitfield[level]) }
            ELSE Undefined
          : level \in find_lowest_set_bit(s.layer_cache) }

\* Large_get_highest_set_bit_unchecked scanning the group it selected for
\* its lowest bit.
Large_get_highest_set_bit_unchecked_lowest_in_group(s) ==
    UNION { IF level = Overflow
            THEN {Overflow}
            ELSE IF level \in DOMAIN s.bitfield
            THEN { UsizeAdd(level * SMALL_BIT_FIELD_BIT_SIZE, r) :
                       r \in find_lowest_set_bit(s.bitfield[level]) }
            ELSE Undefined
          : level \in find_highest_set_bit(s.layer_cache) }

Large_get_highest_set_bit_unchecked(s) ==
    UNION { IF level = Overflow
            THEN {Overflow}
            ELSE IF level \in DOMAIN s.bitfield
            THEN { UsizeAdd(level * SMALL_BIT_FIELD_BIT_SIZE, r) :
                       r \in find_highest_set_bit(s.bitfield[level]) }
            ELSE Undefined
          : level \in find_highest_set_bit(s.layer_cache) }

\* Large_get_lowest_set_bit without the test for emptiness.
Large_get_lowest_set_bit_no_empty_test(s) ==
    {SomeOrPanic(r) : r \in Large_get_lowest_set_bit_unchecked(s)}

Large_get_lowest_set_bit(s) ==
    IF Large_is_empty(s)
    THEN {None}
    ELSE {SomeOrPanic(r) : r \in Large_get_lowest_set_bit_unchecked(s)}

Large_get_highest_set_bit(s) ==
    IF Large_is_empty(s)
    THEN {None}
    ELSE {SomeOrPanic(r) : r \in Large_get_highest_set_bit_unchecked(s)}

----------------------------------------------------------------------------
\* The state machine: one value, of either type, and the calls made on it.

Self ==
    [layer_cache |-> layer_cache, bitfield |-> bitfield]

Init ==
    /\ kind \in {"small", "large", "small_lib_rs", "small_bit_field_rs"}
    /\ overflow_checks \in BOOLEAN
    /\ small_bitfield = Small_new
    /\ layer_cache = Large_new.layer_cache
    /\ bitfield = Large_new.bitfield
    /\ op = "new"
    /\ valid = TRUE
    /\ ret = Unit

\* A panic unwinds the caller: no call follows it.
Small ==
    kind = "small" /\ ret # Panic

Large ==
    kind = "large" /\ ret # Panic

\* A call of a SmallBitField mutator that leaves `b` in self.bitfield.
SmallMutate(name, ok, b) ==
    /\ small_bitfield' = b
    /\ op' = name
    /\ valid' = ok
    /\ ret' = Unit
    /\ UNCHANGED <<kind, overflow_checks, layer_cache, bitfield>>

\* A call of a query (&self) that returns r.
Query(name, ok, r) ==
    /\ op' = name
    /\ valid' = ok
    /\ ret' = r
    /\ UNCHANGED <<kind, overflow_checks, small_bitfield, layer_cache, bitfield>>

\* A call of a LargeBitField mutator that ends as the record r.
LargeMutate(name, ok, r) ==
    /\ layer_cache' = r.layer_cache
    /\ bitfield' = r.bitfield
    /\ op' = name
    /\ valid' = ok
    /\ ret' = r.ret
    /\ UNCHANGED <<kind, overflow_checks, small_bitfield>>

SmallSetField(field) ==
    /\ Small
    /\ SmallMutate("set_field", TRUE, Small_set_field(small_bitfield, field))

SmallClearField(field) ==
    /\ Small
    /\ SmallMutate("clear_field", TRUE, Small_clear_field(small_bitfield, field))

SmallSetBit(index) ==
    /\ Small
    /\ SmallMutate("set_bit", index < SMALL_BIT_FIELD_BIT_SIZE,
                   Small_set_bit(small_bitfield, index))

SmallClearBit(index) ==
    /\ Small
    /\ SmallMutate("clear_bit", index < SMALL_BIT_FIELD_BIT_SIZE,
                   Small_clear_bit(small_bitfield, index))

SmallTestBit(index) ==
    /\ Small
    /\ Query("test_bit", index < SMALL_BIT_FIELD_BIT_SIZE,
             Small_test_bit(small_bitfield, index))

SmallIsEmpty ==
    /\ Small
    /\ Query("is_empty", TRUE, Bool(Small_is_empty(small_bitfield)))

SmallGetLowestSetBit ==
    /\ Small
    /\ \E r \in Small_get_lowest_set_bit(small_bitfield) :
           Query("get_lowest_set_bit", TRUE, r)

SmallGetHighestSetBit ==
    /\ Small
    /\ \E r \in Small_get_highest_set_bit(small_bitfield) :
           Query("get_highest_set_bit", TRUE, r)

LibRsSmallSetBit(index) ==
    /\ kind = "small_lib_rs"
    /\ SmallMutate("set_bit", index < SMALL_BIT_FIELD_BIT_SIZE,
                   Small_set_bit_lib_rs(small_bitfield, index))

LibRsSmallClearBit(index) ==
    /\ kind = "small_lib_rs"
    /\ SmallMutate("clear_bit", index < SMALL_BIT_FIELD_BIT_SIZE,
                   Small_clear_bit_lib_rs(small_bitfield, index))

SmallBitFieldRsSetBit(index) ==
    /\ kind = "small_bit_field_rs"
    /\ SmallMutate("set_bit", index < SMALL_BIT_FIELD_BIT_SIZE,
                   Small_set_bit_small_bit_field_rs(small_bitfield, index))

SmallBitFieldRsClearBit(index) ==
    /\ kind = "small_bit_field_rs"
    /\ SmallMutate("clear_bit", index < SMALL_BIT_FIELD_BIT_SIZE,
                   Small_clear_bit_small_bit_field_rs(small_bitfield, index))

LargeSetBit(index) ==
    /\ Large
    /\ LargeMutate("set_bit", index < LARGE_BIT_FIELD_BIT_SIZE,
                   Large_set_bit(Self, index))

LargeClearBit(index) ==
    /\ Large
    /\ LargeMutate("clear_bit", index < LARGE_BIT_FIELD_BIT_SIZE,
                   Large_clear_bit(Self, index))

\* The unsafe variants, called as their contract requires.
LargeSetBitUnchecked(index) ==
    /\ Large
    /\ index < LARGE_BIT_FIELD_BIT_SIZE
    /\ LargeMutate("set_bit_unchecked", TRUE,
                   Large_set_bit_unchecked(Self, index))

LargeClearBitUnchecked(index) ==
    /\ Large
    /\ index < LARGE_BIT_FIELD_BIT_SIZE
    /\ LargeMutate("clear_bit_unchecked", TRUE,
                   Large_clear_bit_unchecked(Self, index))

LargeSetGroup(group_index, group_field) ==
    /\ Large
    /\ LargeMutate("set_group", group_index < SMALL_BIT_FIELD_BIT_SIZE,
                   Large_set_group(Self, group_index, group_field))

LargeClearGroup(group_index, group_field) ==
    /\ Large
    /\ LargeMutate("clear_group", group_index < SMALL_BIT_FIELD_BIT_SIZE,
                   Large_clear_group(Self, group_index, group_field))

LargeSetField(values) ==
    /\ Large
    /\ LargeMutate("set_field", TRUE, Large_set_field(Self, values))

LargeClearField(values) ==
    /\ Large
    /\ LargeMutate("clear_field", TRUE, Large_clear_field(Self, values))

LargeTestBit(index) ==
    /\ Large
    /\ Query("test_bit", index < LARGE_BIT_FIELD_BIT_SIZE,
             Large_test_bit(Self, index))

LargeTestGroup(group_index) ==
    /\ Large
    /\ Query("test_group", group_index < SMALL_BIT_FIELD_BIT_SIZE,
             Large_test_group(Self, group_index))

LargeIsEmpty ==
    /\ Large
    /\ Query("is_empty", TRUE, Bool(Large_is_empty(Self)))

LargeGetLowestSetBit ==
    /\ Large
    /\ \E r \in Large_get_lowest_set_bit(Self) :
           Query("get_lowest_set_bit", TRUE, r)

LargeGetHighestSetBit ==
    /\ Large
    /\ \E r \in Large_get_highest_set_bit(Self) :
           Query("get_highest_set_bit", TRUE, r)

Next ==
    \/ \E field \in Words : SmallSetField(field)
    \/ \E field \in Words : SmallClearField(field)
    \/ \E index \in SmallIndices : SmallSetBit(index)
    \/ \E index \in SmallIndices : SmallClearBit(index)
    \/ \E index \in SmallIndices : SmallTestBit(index)
    \/ SmallIsEmpty
    \/ SmallGetLowestSetBit
    \/ SmallGetHighestSetBit
    \/ \E index \in SmallIndices : LibRsSmallSetBit(index)
    \/ \E index \in SmallIndices : LibRsSmallClearBit(index)
    \/ \E index \in SmallIndices : SmallBitFieldRsSetBit(index)
    \/ \E index \in SmallIndices : SmallBitFieldRsClearBit(index)
    \/ \E index \in LargeIndices : LargeSetBit(index)
    \/ \E index \in LargeIndices : LargeClearBit(index)
    \/ \E index \in LargeIndices : LargeSetBitUnchecked(index)
    \/ \E index \in LargeIndices : LargeClearBitUnchecked(index)
    \/ \E g \in GroupIndices, m \in Words : LargeSetGroup(g, m)
    \/ \E g \in GroupIndices, m \in Words : LargeClearGroup(g, m)
    \/ \E values \in FieldValues : LargeSetField(values)
    \/ \E values \in FieldValues : LargeClearField(values)
    \/ \E index \in LargeIndices : LargeTestBit(index)
    \/ \E g \in GroupIndices : LargeTestGroup(g)
    \/ LargeIsEmpty
    \/ LargeGetLowestSetBit
    \/ LargeGetHighestSetBit

Spec ==
    Init /\ [][Next]_vars

\* The calls whose index argument is within the capacity (and those that
\* take none).
NextInRange ==
    \/ \E field \in Words : SmallSetField(field)
    \/ \E field \in Words : SmallClearField(field)
    \/ \E index \in SmallIndices : SmallSetBit(index) /\ valid'
    \/ \E index \in SmallIndices : SmallClearBit(index) /\ valid'
    \/ \E index \in SmallIndices : SmallTestBit(index) /\ valid'
    \/ SmallIsEmpty
    \/ SmallGetLowestSetBit
    \/ SmallGetHighestSetBit
    \/ \E index \in SmallIndices : LibRsSmallSetBit(index) /\ valid'
    \/ \E index \in SmallIndices : LibRsSmallClearBit(index) /\ valid'
    \/ \E index \in SmallIndices : SmallBitFieldRsSetBit(index) /\ valid'
    \/ \E index \in SmallIndices : SmallBitFieldRsClearBit(index) /\ valid'
    \/ \E index \in LargeIndices : LargeSetBit(index) /\ valid'
    \/ \E index \in LargeIndices : LargeClearBit(index) /\ valid'
    \/ \E index \in LargeIndices : LargeSetBitUnchecked(index)
    \/ \E index \in LargeIndices : LargeClearBitUnchecked(index)
    \/ \E g \in GroupIndices, m \in Words : LargeSetGroup(g, m) /\ valid'
    \/ \E g \in GroupIndices, m \in Words : LargeClearGroup(g, m) /\ valid'
    \/ \E values \in FieldValues : LargeSetField(values)
    \/ \E values \in FieldValues : LargeClearField(values)
    \/ \E index \in LargeIndices : LargeTestBit(index) /\ valid'
    \/ \E g \in GroupIndices : LargeTestGroup(g) /\ valid'
    \/ LargeIsEmpty
    \/ LargeGetLowestSetBit
    \/ LargeGetHighestSetBit

SpecInRange ==
    Init /\ [][NextInRange]_vars

----------------------------------------------------------------------------
\* What the claims speak of.

\* The indices a checked call accepts and those it does not.
InRange ==
    0 .. (LARGE_BIT_FIELD_BIT_SIZE - 1)

OutOfRange ==
    LargeIndices \ InRange

SmallInRange ==
    0 .. (SMALL_BIT_FIELD_BIT_SIZE - 1)

\* The naive linear scan: the indices whose test_bit is Some(true).
SetFlags(s) ==
    {n \in InRange : Large_test_bit(s, n) = Some(TRUE)}

SmallSetFlags(b) ==
    {n \in SmallInRange : Small_test_bit(b, n) = Some(TRUE)}

Min(S) ==
    CHOOSE n \in S : \A m \in S : n <= m

Max(S) ==
    CHOOSE n \in S : \A m \in S : m <= n

----------------------------------------------------------------------------
\* C1: after any sequence of the checked mutators, called with any argument
\* values, bit g of layer_cache is set if and only if bitfield[g] is
\* non-zero, for every group g.
C1_SummaryInvariant ==
    kind = "large" =>
        \A g \in Groups : (Bit(layer_cache, g) = 1) <=> (bitfield[g] # 0)

\* C2: set_bit and clear_bit with an index of W*W or more, and set_group and
\* clear_group with a group of W or more, return normally and leave
\* layer_cache and every group word as they were.
C2_OutOfRangeIsNoOp ==
    kind = "large" =>
        /\ \A i \in OutOfRange :
              /\ Large_set_bit(Self, i) = Returned(layer_cache, bitfield)
              /\ Large_clear_bit(Self, i) = Returned(layer_cache, bitfield)
        /\ \A g \in GroupIndices \ Groups, m \in Words :
              /\ Large_set_group(Self, g, m) = Returned(layer_cache, bitfield)
              /\ Large_clear_group(Self, g, m) = Returned(layer_cache, bitfield)

\* C3: in every non-empty state reached with in-range arguments,
\* get_lowest_set_bit() is Some of the smallest index whose test_bit is
\* Some(true) and get_highest_set_bit() is Some of the largest, so that
\* lowest <= highest.
C3_TwoLevelSearch ==
    (kind = "large" /\ SetFlags(Self) # {}) =>
        /\ Large_get_lowest_set_bit(Self) = {Some(Min(SetFlags(Self)))}
        /\ Large_get_highest_set_bit(Self) = {Some(Max(SetFlags(Self)))}
        /\ \A lo \in Large_get_lowest_set_bit(Self),
              hi \in Large_get_highest_set_bit(Self) : lo[2] <= hi[2]

\* C3 witness: get_highest_set_bit() has answered in a state whose lowest
\* and highest flags lie in different groups, neither at the edge of its
\* group's word alone.
C3_Witness ==
    /\ kind = "large"
    /\ op = "get_highest_set_bit"
    /\ Cardinality(SetFlags(Self)) >= 3
    /\ ret = Some(Max(SetFlags(Self)))
    /\ Min(SetFlags(Self)) \div SMALL_BIT_FIELD_BIT_SIZE
         # Max(SetFlags(Self)) \div SMALL_BIT_FIELD_BIT_SIZE

\* C4: is_empty() is true if and only if no index in range tests as set,
\* for a LargeBitField and for a SmallBitField.
C4_EmptyIffNoFlag ==
    /\ kind = "large" => (Large_is_empty(Self) <=> SetFlags(Self) = {})
    /\ kind = "small" =>
           (Small_is_empty(small_bitfield) <=> SmallSetFlags(small_bitfield) = {})

\* C5: for every index i in range, test_bit(i) is Some(true) right after
\* set_bit(i) and Some(false) right after a clear_bit(i) that follows, for
\* both types.
C5_SetTestClear ==
    /\ kind = "large" =>
           \A i \in InRange :
               LET set == Large_set_bit(Self, i)
                   cleared == Large_clear_bit(set, i)
               IN  /\ set.ret = Unit
                   /\ Large_test_bit(set, i) = Some(TRUE)
                   /\ cleared.ret = Unit
                   /\ Large_test_bit(cleared, i) = Some(FALSE)
    /\ kind = "small" =>
           \A i \in SmallInRange :
               LET set == Small_set_bit(small_bitfield, i)
                   cleared == Small_clear_bit(set, i)
               IN  /\ Small_test_bit(set, i) = Some(TRUE)
                   /\ Small_test_bit(cleared, i) = Some(FALSE)

\* C5 witness: a set_bit with an index in range has returned, in a state
\* that held other flags, and its flag tests as set.
C5_Witness ==
    /\ kind = "large"
    /\ op = "set_bit"
    /\ valid
    /\ ret = Unit
    /\ Cardinality(SetFlags(Self)) >= 2

\* C6: for every index i in range, set_bit(i) twice leaves the state that
\* set_bit(i) once leaves, and clear_bit(i) of an index whose test_bit is
\* Some(false) leaves the whole state unchanged, for both types.
C6_Idempotence ==
    /\ kind = "large" =>
           \A i \in InRange :
               /\ Large_set_bit(Large_set_bit(Self, i), i) = Large_set_bit(Self, i)
               /\ Large_test_bit(Self, i) = Some(FALSE) =>
                      Large_clear_bit(Self, i) = Returned(layer_cache, bitfield)
    /\ kind = "small" =>
           \A i \in SmallInRange :
               /\ Small_set_bit(Small_set_bit(small_bitfield, i), i)
                      = Small_set_bit(small_bitfield, i)
               /\ Small_test_bit(small_bitfield, i) = Some(FALSE) =>
                      Small_clear_bit(small_bitfield, i) = small_bitfield

\* What test_bit and test_group return, in every state: see C7.
TriStateResults ==
    /\ kind = "large" =>
           /\ \A i \in LargeIndices :
                 Large_test_bit(Self, i) =
                     IF i >= LARGE_BIT_FIELD_BIT_SIZE
                     THEN None
                     ELSE Some(Bit(bitfield[i \div SMALL_BIT_FIELD_BIT_SIZE],
                                   i % SMALL_BIT_FIELD_BIT_SIZE) = 1)
           /\ \A g \in GroupIndices :
                 (Large_test_group(Self, g) = None)
                     <=> (g >= SMALL_BIT_FIELD_BIT_SIZE)
    /\ kind = "small" =>
           \A i \in SmallIndices :
               Small_test_bit(small_bitfield, i) =
                   IF i >= SMALL_BIT_FIELD_BIT_SIZE
                   THEN None
                   ELSE Some(Bit(small_bitfield, i) = 1)

\* C7: test_bit(i) is None exactly when i is at or past the capacity and
\* Some of the current value of flag i otherwise, for both types;
\* test_group(g) is None exactly when g >= W; and a call of test_bit or
\* test_group leaves the fields of the value as they were.
C7_TriState ==
    /\ []TriStateResults
    /\ [][op' \in {"test_bit", "test_group"} =>
              UNCHANGED <<small_bitfield, layer_cache, bitfield>>]_vars

\* C7 witness: test_bit has answered None for an index past the capacity of
\* a LargeBitField that holds flags.
C7_Witness ==
    /\ kind = "large"
    /\ op = "test_bit"
    /\ ~valid
    /\ ret = None
    /\ SetFlags(Self) # {}

C9_TestGroupOccupancy ==
    kind = "large" =>
        \A g \in Groups :
            /\ Large_test_group(Self, g) = Some(bitfield[g] # 0)
            /\ (bitfield[g] # 0) <=>
                   (\E n \in SetFlags(Self) : n \div SMALL_BIT_FIELD_BIT_SIZE = g)

\* C10: set_group(g, m) sets exactly the flags of group g that m names and
\* clear_group(g, m) clears exactly those; every flag of every other group
\* and every other bit of layer_cache is unchanged; test_group(g) afterwards
\* is true if and only if the resulting group word is non-zero.
GroupEffect(after, g, word) ==
    /\ after.ret = Unit
    /\ after.bitfield = [bitfield EXCEPT ![g] = word]
    /\ \A h \in Groups \ {g} : Bit(after.layer_cache, h) = Bit(layer_cache, h)
    /\ Large_test_group(after, g) = Some(after.bitfield[g] # 0)

C10_GroupOperations ==
    kind = "large" =>
        \A g \in Groups, m \in Words :
            /\ GroupEffect(Large_set_group(Self, g, m), g,
                           BitOr(bitfield[g], m))
            /\ GroupEffect(Large_clear_group(Self, g, m), g,
                           BitAnd(bitfield[g], BitNot(m)))

\* C11: the state after set_field(values) is the state after set_group(g,
\* values[g]) for g = 0, 1, ..., W-1, and likewise for clear_field and
\* clear_group; clear_field with all-ones masks leaves an empty field.
ClaimMasks ==
    FieldMasks \cup {2 ^ (SMALL_BIT_FIELD_BIT_SIZE - 1)}

RECURSIVE RepeatedSetGroup(_, _, _)
RepeatedSetGroup(s, values, g) ==
    IF g = SMALL_BIT_FIELD_BIT_SIZE
    THEN Returned(s.layer_cache, s.bitfield)
    ELSE RepeatedSetGroup(Large_set_group(s, g, values[g]), values, g + 1)

RECURSIVE RepeatedClearGroup(_, _, _)
RepeatedClearGroup(s, values, g) ==
    IF g = SMALL_BIT_FIELD_BIT_SIZE
    THEN Returned(s.layer_cache, s.bitfield)
    ELSE RepeatedClearGroup(Large_clear_group(s, g, values[g]), values, g + 1)

C11_FieldIsRepeatedGroup ==
    kind = "large" =>
        /\ \A values \in [Groups -> ClaimMasks] :
              /\ Large_set_field(Self, values) = RepeatedSetGroup(Self, values, 0)
              /\ Large_clear_field(Self, values)
                     = RepeatedClearGroup(Self, values, 0)
        /\ LET cleared == Large_clear_field(Self, [g \in Groups |-> AllOnes])
           IN  /\ Large_is_empty(cleared)
               /\ SetFlags(cleared) = {}
               /\ cleared.ret = Unit

\* C11 witness: a set_field has returned and left a flag in every group,
\* with some group word not full.
C11_Witness ==
    /\ kind = "large"
    /\ op = "set_field"
    /\ ret = Unit
    /\ \A g \in Groups : bitfield[g] # 0
    /\ \E g \in Groups : bitfield[g] # AllOnes

\* C12: in every revision of SmallBitField in the sources, set_bit(i) sets
\* bit i and clear_bit(i) clears bit i when i < W, and both leave the
\* backing word unchanged when i >= W.
GuardNotInverted(b, index, set, cleared) ==
    /\ set \in Words
    /\ cleared \in Words
    /\ \A k \in SmallInRange :
          /\ Bit(set, k) = IF k = index THEN 1 ELSE Bit(b, k)
          /\ Bit(cleared, k) = IF k = index THEN 0 ELSE Bit(b, k)
    /\ index >= SMALL_BIT_FIELD_BIT_SIZE => (set = b /\ cleared = b)

C12_GuardNotInverted ==
    /\ kind = "small" =>
           \A i \in SmallIndices :
               GuardNotInverted(small_bitfield, i,
                                Small_set_bit(small_bitfield, i),
                                Small_clear_bit(small_bitfield, i))
    /\ kind = "small_lib_rs" =>
           \A i \in SmallIndices :
               GuardNotInverted(small_bitfield, i,
                                Small_set_bit_lib_rs(small_bitfield, i),
                                Small_clear_bit_lib_rs(small_bitfield, i))
    /\ kind = "small_bit_field_rs" =>
           \A i \in SmallIndices :
               GuardNotInverted(small_bitfield, i,
                                Small_set_bit_small_bit_field_rs(small_bitfield, i),
                                Small_clear_bit_small_bit_field_rs(small_bitfield, i))

\* C12 witness: on the revision of small_bit_field.rs, a set_bit with an
\* index past the width has returned and the word holds the bits that
\* earlier in-range calls set, not all of them.
C12_Witness ==
    /\ kind = "small_bit_field_rs"
    /\ op = "set_bit"
    /\ ~valid
    /\ small_bitfield # 0
    /\ small_bitfield # AllOnes

C14_ScanPrecondition ==
    (kind = "large" /\ ~Large_is_empty(Self)) =>
        /\ layer_cache # 0
        /\ \A level \in find_lowest_set_bit(layer_cache)
                         \cup find_highest_set_bit(layer_cache) :
              level \in Groups /\ bitfield[level] # 0
        /\ \A r \in Large_get_lowest_set_bit(Self)
                     \cup Large_get_highest_set_bit(Self) :
              /\ r[1] = "Some"
              /\ r[2] < LARGE_BIT_FIELD_BIT_SIZE
              /\ Large_test_bit(Self, r[2]) = Some(TRUE)

\* C15: for every index i < W*W, set_bit(i) and set_bit_unchecked(i) leave
\* the same fields, clear_bit(i) and clear_bit_unchecked(i) leave the same
\* fields, test_bit(i) is Some(test_bit_unchecked(i)), and in every
\* non-empty state get_lowest_set_bit() and get_highest_set_bit() are Some
\* of their unchecked variants.
C15_CheckedEqualsUnchecked ==
    kind = "large" =>
        /\ \A i \in InRange :
              /\ Large_set_bit(Self, i) = Large_set_bit_unchecked(Self, i)
              /\ Large_clear_bit(Self, i) = Large_clear_bit_unchecked(Self, i)
              /\ Large_test_bit(Self, i)
                     = Some(Large_test_bit_unchecked(Self, i))
        /\ ~Large_is_empty(Self) =>
              /\ Large_get_lowest_set_bit(Self)
                     = {Some(r) : r \in Large_get_lowest_set_bit_unchecked(Self)}
              /\ Large_get_highest_set_bit(Self)
                     = {Some(r) : r \in Large_get_highest_set_bit_unchecked(Self)}

\* C15 witness: a clear_bit_unchecked has returned and emptied one group
\* while another still holds a flag.
C15_Witness ==
    /\ kind = "large"
    /\ op = "clear_bit_unchecked"
    /\ ret = Unit
    /\ layer_cache # 0
    /\ \E g \in Groups : bitfield[g] = 0 /\ Bit(layer_cache, g) = 0

\* C16: for every index i in range, set_bit(i) and clear_bit(i) leave
\* test_bit(j) unchanged for every j # i, leave every group word other than
\* bitfield[i / W] unchanged and leave every bit of layer_cache other than
\* bit i / W unchanged.
OnlyOwnFlag(after, i) ==
    /\ after.ret = Unit
    /\ \A j \in InRange \ {i} :
          Large_test_bit(after, j) = Large_test_bit(Self, j)
    /\ \A g \in Groups \ {i \div SMALL_BIT_FIELD_BIT_SIZE} :
          /\ after.bitfield[g] = bitfield[g]
          /\ Bit(after.layer_cache, g) = Bit(layer_cache, g)
    /\ after.layer_cache \in Words

C16_PointMutationFrame ==
    kind = "large" =>
        \A i \in InRange :
            /\ OnlyOwnFlag(Large_set_bit(Self, i), i)
            /\ OnlyOwnFlag(Large_clear_bit(Self, i), i)

\* C16 witness: a clear_bit with an index in range has returned and every
\* group still holds a flag.
C16_Witness ==
    /\ kind = "large"
    /\ op = "clear_bit"
    /\ valid
    /\ ret = Unit
    /\ \A g \in Groups : bitfield[g] # 0 /\ Bit(layer_cache, g) = 1

====
